---- MODULE Spec2Model ----
(***************************************************************************)
(* Model of src/main.py: the hiking-conditions loader, the ranked report,  *)
(* the --month normaliser and the interactive dashboard's dropdown.        *)
(*                                                                         *)
(* Numbers.  A monthly score is an integer, or NaN for an empty cell.      *)
(* AverageScore is a mean of 1..12 integers; it is kept exactly, as an     *)
(* integer number of units of 1/AvgScale, AvgScale = lcm(1..12), so that   *)
(* every such mean is a whole number of units.                             *)
(*                                                                         *)
(* Strings.  Column names and cell texts are TLA+ strings.  The value of   *)
(* --month is a sequence of one-character strings, so that strip() and     *)
(* lower() are computed character by character.                            *)
(***************************************************************************)
EXTENDS Integers, Sequences, FiniteSets, TLC

\* ------------------------------------------------------------------ bounds
MaxRows == 3
MaxDashRows == 2

\* --------------------------------------------------------------- constants
MONTH_COLUMNS ==
    << "Jan", "Feb", "Mar", "Apr", "May", "Jun",
       "Jul", "Aug", "Sep", "Oct", "Nov", "Dec" >>

NaN == -1
AvgScale == 27720
TopN == 15

Range(s) == { s[i] : i \in DOMAIN s }

required_cols == {"Park", "State", "Latitude", "Longitude"} \cup Range(MONTH_COLUMNS)

\* ------------------------------------------------------------- arithmetic
RECURSIVE SumPresent(_, _, _)
SumPresent(row, cols, k) ==
    IF k = 0 THEN 0
    ELSE SumPresent(row, cols, k - 1)
         + (IF row[cols[k]] = NaN THEN 0 ELSE row[cols[k]])

RECURSIVE CountPresent(_, _, _)
CountPresent(row, cols, k) ==
    IF k = 0 THEN 0
    ELSE CountPresent(row, cols, k - 1)
         + (IF row[cols[k]] = NaN THEN 0 ELSE 1)

\* RowMean with the last listed column left out
RowMean_dropLast(row, cols) ==
    LET n == CountPresent(row, cols, Len(cols) - 1)
        s == SumPresent(row, cols, Len(cols) - 1)
    IN  IF n = 0 THEN NaN ELSE (s * AvgScale) \div n

\* DataFrame.mean(axis=1) of one row over the listed columns: empty cells
\* are skipped (skipna), a row with no value at all averages to NaN.
RowMean(row, cols) ==
    LET n == CountPresent(row, cols, Len(cols))
        s == SumPresent(row, cols, Len(cols))
    IN  IF n = 0 THEN NaN ELSE (s * AvgScale) \div n

\* A float written with d decimals: round to the nearest, an exact tie to
\* the even digit.  scale10 is 10^d; v is in units of 1/AvgScale.
Fmt(v, scale10) ==
    IF v = NaN THEN NaN
    ELSE LET q == (v * scale10) \div AvgScale
             r == (v * scale10) % AvgScale
         IN  IF 2 * r < AvgScale THEN q
             ELSE IF 2 * r > AvgScale THEN q + 1
             ELSE IF q % 2 = 0 THEN q ELSE q + 1

\* A number read as a float, in units of 1/AvgScale.
ToFloat(v) == IF v = NaN THEN NaN ELSE v * AvgScale

Fmt2(v) == Fmt(v, 100)
Fmt1(v) == Fmt(v, 10)

\* -------------------------------------------------------------- load_data
\* df.copy() followed by df["AverageScore"] = df[MONTH_COLUMNS].mean(axis=1)
WithAverage(rows) ==
    [ i \in DOMAIN rows |->
        [ c \in (DOMAIN rows[i]) \cup {"AverageScore"} |->
            IF c = "AverageScore" THEN RowMean(rows[i], MONTH_COLUMNS)
            ELSE rows[i][c] ] ]

\* missing_cols with the set difference the wrong way round
missing_cols_reversed(columns) == columns \ required_cols

missing_cols(columns) == required_cols \ columns

\* ---------------------------------------------------- normalize_month_name
Whitespace == { " ", "\t", "\n" }

UPPER ==
    << "A", "B", "C", "D", "E", "F", "G", "H", "I", "J", "K", "L", "M",
       "N", "O", "P", "Q", "R", "S", "T", "U", "V", "W", "X", "Y", "Z" >>

LOWER ==
    << "a", "b", "c", "d", "e", "f", "g", "h", "i", "j", "k", "l", "m",
       "n", "o", "p", "q", "r", "s", "t", "u", "v", "w", "x", "y", "z" >>

\* str.lower(), one character
LowerChar(ch) ==
    IF \E i \in DOMAIN UPPER : UPPER[i] = ch
    THEN LOWER[CHOOSE i \in DOMAIN UPPER : UPPER[i] = ch]
    ELSE ch

\* str.lower()
Lower(s) == [ i \in DOMAIN s |-> LowerChar(s[i]) ]

RECURSIVE LStrip(_)
LStrip(s) ==
    IF s # << >> /\ Head(s) \in Whitespace THEN LStrip(Tail(s)) ELSE s

RECURSIVE RStrip(_)
RStrip(s) ==
    IF s # << >> /\ s[Len(s)] \in Whitespace
    THEN RStrip(SubSeq(s, 1, Len(s) - 1))
    ELSE s

\* Strip that strips the left end only
Strip_left(s) == LStrip(s)

\* str.strip()
Strip(s) == RStrip(LStrip(s))

\* the dict literal of normalize_month_name, as <<key, value>> pairs
mapping ==
    { << <<"j", "a", "n", "u", "a", "r", "y">>, "Jan" >>,
      << <<"j", "a", "n">>, "Jan" >>,
      << <<"f", "e", "b", "r", "u", "a", "r", "y">>, "Feb" >>,
      << <<"f", "e", "b">>, "Feb" >>,
      << <<"m", "a", "r", "c", "h">>, "Mar" >>,
      << <<"m", "a", "r">>, "Mar" >>,
      << <<"a", "p", "r", "i", "l">>, "Apr" >>,
      << <<"a", "p", "r">>, "Apr" >>,
      << <<"m", "a", "y">>, "May" >>,
      << <<"j", "u", "n", "e">>, "Jun" >>,
      << <<"j", "u", "n">>, "Jun" >>,
      << <<"j", "u", "l", "y">>, "Jul" >>,
      << <<"j", "u", "l">>, "Jul" >>,
      << <<"a", "u", "g", "u", "s", "t">>, "Aug" >>,
      << <<"a", "u", "g">>, "Aug" >>,
      << <<"s", "e", "p", "t", "e", "m", "b", "e", "r">>, "Sep" >>,
      << <<"s", "e", "p">>, "Sep" >>,
      << <<"o", "c", "t", "o", "b", "e", "r">>, "Oct" >>,
      << <<"o", "c", "t">>, "Oct" >>,
      << <<"n", "o", "v", "e", "m", "b", "e", "r">>, "Nov" >>,
      << <<"n", "o", "v">>, "Nov" >>,
      << <<"d", "e", "c", "e", "m", "b", "e", "r">>, "Dec" >>,
      << <<"d", "e", "c">>, "Dec" >> }

\* The result of a call: a returned value, or the exception it raised.
Returned(v) == [ ok |-> TRUE, value |-> v ]
Raised(e) == [ ok |-> FALSE, value |-> e ]

normalize_month_name(month) ==
    LET m == Lower(Strip(month))
    IN  IF ~ \E kv \in mapping : kv[1] = m
        THEN Raised("ValueError")
        ELSE Returned((CHOOSE kv \in mapping : kv[1] = m)[2])

\* The characters of the twelve canonical abbreviations, to pass a returned
\* abbreviation back in as an argument.
MonthChars ==
    [ Jan |-> <<"J", "a", "n">>, Feb |-> <<"F", "e", "b">>,
      Mar |-> <<"M", "a", "r">>, Apr |-> <<"A", "p", "r">>,
      May |-> <<"M", "a", "y">>, Jun |-> <<"J", "u", "n">>,
      Jul |-> <<"J", "u", "l">>, Aug |-> <<"A", "u", "g">>,
      Sep |-> <<"S", "e", "p">>, Oct |-> <<"O", "c", "t">>,
      Nov |-> <<"N", "o", "v">>, Dec |-> <<"D", "e", "c">> ]

\* ------------------------------------------------------------------ inputs
\* Input tables.  A header is the required columns less any of Droppable,
\* plus any of Extras (one of them a column that is itself called
\* AverageScore); the rows are drawn from four parks, chosen so that two
\* different parks tie on the average (Acadia, Zion), one row has empty
\* cells (Yosemite: 8 values, mean 6.125) and one is the 77/12 example.
\* No row has all twelve cells empty, so no AverageScore is NaN.
Droppable == { "Longitude", "Dec" }
Extras == { "Elevation", "AverageScore" }

Headers ==
    { (required_cols \ m) \cup e : m \in SUBSET Droppable, e \in SUBSET Extras }

MkRow(park, state, lat, lon, scores, elev) ==
    [ c \in required_cols \cup Extras |->
        IF c = "Park" THEN park
        ELSE IF c = "State" THEN state
        ELSE IF c = "Latitude" THEN lat
        ELSE IF c = "Longitude" THEN lon
        ELSE IF c = "Elevation" THEN elev
        ELSE IF c = "AverageScore" THEN ToFloat(5)
        ELSE scores[CHOOSE k \in DOMAIN MONTH_COLUMNS : MONTH_COLUMNS[k] = c] ]

RowPool ==
    { MkRow("Acadia", "ME", 44, -68, <<6, 6, 6, 6, 6, 6, 6, 6, 6, 6, 6, 6>>, 466),
      MkRow("Zion", "UT", 37, -113, <<4, 4, 4, 4, 4, 4, 8, 8, 8, 8, 8, 8>>, 1311),
      MkRow("Yosemite", "CA", 38, -120,
            <<NaN, NaN, 5, 6, 7, 7, 7, 7, 6, 4, NaN, NaN>>, 1209),
      MkRow("Yellowstone", "WY", 45, -110,
            <<5, 6, 7, 7, 7, 7, 7, 7, 6, 6, 6, 6>>, 2357) }

RowSeqs == UNION { [1..n -> RowPool] : n \in 0..MaxRows }

\* what read_csv returns for a file with header h and the given data rows
ReadCsv(h, rs) ==
    [ columns |-> h,
      rows |-> [ i \in DOMAIN rs |-> [ c \in h |-> rs[i][c] ] ] ]

Tables == { ReadCsv(h, rs) : h \in Headers, rs \in RowSeqs }

\* Values of --month: a word, in four letter cases, padded on either side.
Upper(s) ==
    [ i \in DOMAIN s |->
        IF \E k \in DOMAIN LOWER : LOWER[k] = s[i]
        THEN UPPER[CHOOSE k \in DOMAIN LOWER : LOWER[k] = s[i]]
        ELSE s[i] ]

Alternating(s) == [ i \in DOMAIN s |-> IF i % 2 = 0 THEN Upper(s)[i] ELSE s[i] ]

Cased(w) == { w, Upper(w), Lower(w), Alternating(Lower(w)) }

Pads == { << >>, << " " >>, << "\t", " " >> }

Padded(w) == { l \o w \o r : l \in Pads, r \in Pads }

BadWords ==
    { << >>,
      <<"s", "e", "p", "t">>,
      <<"j", "a", "n", "u">>,
      <<"m", "a", "y", "y">>,
      <<"j", "a", " ", "n">>,
      <<"j", "a", "n", ".">>,
      <<"1", "3">>,
      <<"j", "u">> }

\* the English month names
EnglishMonthNames ==
    << <<"J", "a", "n", "u", "a", "r", "y">>,
       <<"F", "e", "b", "r", "u", "a", "r", "y">>,
       <<"M", "a", "r", "c", "h">>,
       <<"A", "p", "r", "i", "l">>,
       <<"M", "a", "y">>,
       <<"J", "u", "n", "e">>,
       <<"J", "u", "l", "y">>,
       <<"A", "u", "g", "u", "s", "t">>,
       <<"S", "e", "p", "t", "e", "m", "b", "e", "r">>,
       <<"O", "c", "t", "o", "b", "e", "r">>,
       <<"N", "o", "v", "e", "m", "b", "e", "r">>,
       <<"D", "e", "c", "e", "m", "b", "e", "r">> >>

Abbreviation(name) == SubSeq(name, 1, 3)

GoodWords ==
    { EnglishMonthNames[i] : i \in DOMAIN EnglishMonthNames }
    \cup { Abbreviation(EnglishMonthNames[i]) : i \in DOMAIN EnglishMonthNames }

Words == GoodWords \cup BadWords

AllMonthArgs == UNION { Padded(c) : c \in UNION { Cased(w) : w \in Words } }

FewMonthArgs ==
    { <<"A", "p", "r">>,
      <<" ", "d", "e", "c", "e", "m", "b", "e", "r">>,
      <<"s", "e", "p", "t">> }

\* ------------------------------------------------------------ sort_values
PermsUpTo ==
    [ n \in 0..(MaxRows + 1) |->
        { p \in [1..n -> 1..n] : \A a, b \in 1..n : p[a] = p[b] => a = b } ]

\* the permutations of 1..n
Perms(n) == PermsUpTo[n]

\* In a descending sort, input row a may come right before input row b:
\* NaN goes last, and NaNs among themselves keep their order.
InOrder(vals, a, b) ==
    IF vals[b] = NaN THEN (vals[a] # NaN \/ a < b)
    ELSE IF vals[a] = NaN THEN FALSE
    ELSE vals[a] >= vals[b]

\* The indexers sort_values(ascending=False) can return: k-th output row is
\* input row p[k].  The default kind="quicksort" is not a stable sort, so
\* rows with equal values may come out in any order.
SortedPerms(vals) ==
    { p \in Perms(Len(vals)) :
        \A k \in 1..(Len(vals) - 1) : InOrder(vals, p[k], p[k + 1]) }

\* One such indexer: the one that orders equal values by the ranking prio.
ArgsortDesc(vals, prio) ==
    CHOOSE p \in SortedPerms(vals) :
        \A k \in 1..(Len(vals) - 1) :
            vals[p[k]] = vals[p[k + 1]] /\ vals[p[k]] # NaN
                => prio[p[k]] < prio[p[k + 1]]

Column(frame, c) == [ i \in DOMAIN frame |-> frame[i][c] ]

\* ------------------------------------------------------------------- state
VARIABLES
    file,        \* the CSV file's content: header and data rows
    args,        \* parse_args(): month, all, interactive
    pc,          \* where main is
    df,          \* the DataFrame: load_data's local, then main's
    err,         \* the exception that ended the run, if any
    output,      \* the lines printed so far
    indexer,     \* print_average_scores: the permutation its sort applied
    sorted_df,   \* print_average_scores: its local sorted_df
    written,     \* the HTML files written so far
    fig,         \* the dashboard figure as the browser shows it
    selected,    \* the dropdown button selected last (0: none yet)
    steps        \* the steps main has completed, in order

vars ==
    << file, args, pc, df, err, output, indexer, sorted_df, written, fig,
       selected, steps >>

None == << >>

NoError == [ type |-> "", in |-> "", missing |-> { } ]

NoFig ==
    [ traces |-> << >>, buttons |-> << >>, title |-> None, top |-> None ]

\* parse_args(): exactly one of --month, --all, --interactive
Modes(months) ==
    { [ month |-> m, all |-> FALSE, interactive |-> FALSE ] : m \in months }
    \cup { [ month |-> None, all |-> TRUE, interactive |-> FALSE ] }

Interactive == [ month |-> None, all |-> FALSE, interactive |-> TRUE ]

\* The dashboard is built for tables of at most MaxDashRows rows.
InitWith(tables, months) ==
    /\ file \in tables
    /\ args \in Modes(months) \cup
                (IF Len(file.rows) <= MaxDashRows THEN { Interactive } ELSE { })
    /\ pc = "start"
    /\ df = << >>
    /\ err = NoError
    /\ output = << >>
    /\ indexer = << >>
    /\ sorted_df = << >>
    /\ written = { }
    /\ fig = NoFig
    /\ selected = 0
    /\ steps = << >>

Init == InitWith(Tables, FewMonthArgs)

\* ----------------------------------------------------------------- actions
\* load_data, lines 47-52: read the file, check the header
load_data_validate ==
    /\ pc = "start"
    /\ LET missing == missing_cols(file.columns)
       IN  IF missing # { }
           THEN /\ err' = [ type |-> "ValueError", in |-> "load_data",
                            missing |-> missing ]
                /\ pc' = "raised"
                /\ df' = df
           ELSE /\ df' = file.rows
                /\ pc' = "validated"
                /\ err' = err
    /\ steps' = Append(steps, "validate")
    /\ UNCHANGED << file, args, output, indexer, sorted_df, written, fig, selected >>

\* load_data_average that refuses a table without rows
load_data_average_strict ==
    /\ pc = "validated"
    /\ IF df = << >>
       THEN /\ err' = [ type |-> "ValueError", in |-> "load_data", missing |-> { } ]
            /\ pc' = "raised"
            /\ UNCHANGED << df, steps >>
       ELSE /\ df' = WithAverage(df)
            /\ pc' = "loaded"
            /\ steps' = Append(steps, "average")
            /\ err' = err
    /\ UNCHANGED << file, args, output, indexer, sorted_df, written, fig, selected >>

\* load_data, lines 54-57: copy, add AverageScore, return to main
load_data_average ==
    /\ pc = "validated"
    /\ df' = WithAverage(df)
    /\ pc' = "loaded"
    /\ steps' = Append(steps, "average")
    /\ UNCHANGED << file, args, err, output, indexer, sorted_df, written, fig, selected >>

\* sort_values(..., ignore_index=True) returns a new frame, labelled 0..n-1
SortValues(frame, p) == [ k \in DOMAIN frame |-> frame[p[k]] ]

\* ReportLine with the rank counted from 0
ReportLine_rank0(idx, row) ==
    [ kind |-> "rank", rank |-> idx, park |-> row["Park"],
      state |-> row["State"], avg |-> Fmt2(row["AverageScore"]) ]

ReportLine(idx, row) ==
    [ kind |-> "rank", rank |-> idx + 1, park |-> row["Park"],
      state |-> row["State"], avg |-> Fmt2(row["AverageScore"]) ]

Heading == [ kind |-> "heading" ]

\* print_average_scores sorting the caller's frame in place
print_average_scores_inplace ==
    /\ pc = "loaded"
    /\ \E p \in SortedPerms(Column(df, "AverageScore")) :
         LET sorted == SortValues(df, p)
         IN  /\ indexer' = p
             /\ sorted_df' = sorted
             /\ df' = sorted
             /\ output' = output \o << Heading >>
                          \o [ k \in DOMAIN sorted |-> ReportLine(k - 1, sorted[k]) ]
    /\ pc' = "reported"
    /\ steps' = Append(steps, "report")
    /\ UNCHANGED << file, args, err, written, fig, selected >>

\* print_average_scores, lines 60-69
print_average_scores ==
    /\ pc = "loaded"
    /\ \E p \in SortedPerms(Column(df, "AverageScore")) :
         LET sorted == SortValues(df, p)
         IN  /\ indexer' = p
             /\ sorted_df' = sorted
             /\ output' = output \o << Heading >>
                          \o [ k \in DOMAIN sorted |-> ReportLine(k - 1, sorted[k]) ]
    /\ pc' = "reported"
    /\ steps' = Append(steps, "report")
    /\ UNCHANGED << file, args, df, err, written, fig, selected >>

\* ------------------------------------------------------ make_month_heatmap
Present(vals) == { vals[i] : i \in DOMAIN vals } \ { NaN }

\* Series.min() and Series.max(): empty cells skipped, NaN if nothing is left
SeriesMin(vals) ==
    IF Present(vals) = { } THEN NaN
    ELSE CHOOSE v \in Present(vals) : \A w \in Present(vals) : v <= w

SeriesMax(vals) ==
    IF Present(vals) = { } THEN NaN
    ELSE CHOOSE v \in Present(vals) : \A w \in Present(vals) : v >= w

Title(label) == << "US National Parks Hiking Conditions - ", label >>

HeatmapPath(month_col) == << "hiking_conditions_", month_col, ".html" >>

DashboardPath == << "hiking_conditions_interactive.html" >>

\* the file make_month_heatmap writes
make_month_heatmap(frame, month_col) ==
    [ path |-> HeatmapPath(month_col),
      title |-> Title(month_col),
      color |-> Column(frame, month_col),
      range_color |-> << SeriesMin(Column(frame, month_col)),
                         SeriesMax(Column(frame, month_col)) >> ]

SavedLine(path) == [ kind |-> "saved", path |-> path ]

\* main, lines 346-350: --month
main_month ==
    /\ pc = "reported"
    /\ ~ args.interactive
    /\ ~ args.all
    /\ LET r == normalize_month_name(args.month)
       IN  IF ~ r.ok
           THEN /\ err' = [ type |-> r.value, in |-> "normalize_month_name",
                            missing |-> { } ]
                /\ pc' = "raised"
                /\ UNCHANGED << output, written, steps >>
           ELSE IF r.value \notin Range(MONTH_COLUMNS)
           THEN /\ err' = [ type |-> "ValueError", in |-> "main",
                            missing |-> { } ]
                /\ pc' = "raised"
                /\ UNCHANGED << output, written, steps >>
           ELSE /\ written' = written \cup { make_month_heatmap(df, r.value) }
                /\ output' = Append(output, SavedLine(HeatmapPath(r.value)))
                /\ steps' = Append(steps, "chart")
                /\ pc' = "done"
                /\ err' = err
    /\ UNCHANGED << file, args, df, indexer, sorted_df, fig, selected >>

\* generate_all_months run although load_data raised
generate_all_months_after_error ==
    /\ pc \in { "reported", "raised" }
    /\ ~ args.interactive
    /\ args.all
    /\ written' = written \cup
           { make_month_heatmap(df, MONTH_COLUMNS[k]) : k \in DOMAIN MONTH_COLUMNS }
    /\ output' = output \o
           [ k \in 1..(2 * Len(MONTH_COLUMNS)) |->
               IF k % 2 = 1
               THEN [ kind |-> "generating", month |-> MONTH_COLUMNS[(k + 1) \div 2] ]
               ELSE SavedLine(HeatmapPath(MONTH_COLUMNS[k \div 2])) ]
    /\ steps' = Append(steps, "chart")
    /\ pc' = "done"
    /\ UNCHANGED << file, args, df, err, indexer, sorted_df, fig, selected >>

\* main, lines 344-345: --all, generate_all_months
generate_all_months ==
    /\ pc = "reported"
    /\ ~ args.interactive
    /\ args.all
    /\ written' = written \cup
           { make_month_heatmap(df, MONTH_COLUMNS[k]) : k \in DOMAIN MONTH_COLUMNS }
    /\ output' = output \o
           [ k \in 1..(2 * Len(MONTH_COLUMNS)) |->
               IF k % 2 = 1
               THEN [ kind |-> "generating", month |-> MONTH_COLUMNS[(k + 1) \div 2] ]
               ELSE SavedLine(HeatmapPath(MONTH_COLUMNS[k \div 2])) ]
    /\ steps' = Append(steps, "chart")
    /\ pc' = "done"
    /\ UNCHANGED << file, args, df, err, indexer, sorted_df, fig, selected >>

\* ---------------------------------------------- make_interactive_dashboard
dropdown_labels == MONTH_COLUMNS \o << "Average" >>

value_series(frame, label) ==
    IF label = "Average" THEN Column(frame, "AverageScore")
    ELSE Column(frame, label)

Min2(a, b) == IF a <= b THEN a ELSE b

\* top_lists[label]: the label and the first TopN rows of the series sorted
\* high to low
top_list(frame, label, prio) ==
    LET series == value_series(frame, label)
        floats == [ i \in DOMAIN series |->
                      IF label = "Average" THEN series[i] ELSE ToFloat(series[i]) ]
        order == ArgsortDesc(floats, prio)
    IN  [ label |-> label,
          entries |->
            [ k \in 1..Min2(TopN, Len(series)) |->
                [ idx |-> k,
                  park |-> frame[order[k]]["Park"],
                  state |-> frame[order[k]]["State"],
                  score |-> Fmt1(floats[order[k]]) ] ] ]

\* traces[idx], idx counted from 0 as in the source
Trace(frame, idx) ==
    [ name |-> dropdown_labels[idx + 1],
      color |-> value_series(frame, dropdown_labels[idx + 1]),
      visible |-> (idx = 0) ]

\* Button with one visibility list shared by all buttons, so that each
\* button also shows the traces of the buttons before it
Button_shared(frame, idx, prio) ==
    [ label |-> dropdown_labels[idx + 1],
      visible |-> [ j \in DOMAIN dropdown_labels |-> j <= idx + 1 ],
      title |-> Title(dropdown_labels[idx + 1]),
      top |-> top_list(frame, dropdown_labels[idx + 1], prio) ]

\* buttons[idx]: what selecting it applies
Button(frame, idx, prio) ==
    [ label |-> dropdown_labels[idx + 1],
      visible |-> [ j \in DOMAIN dropdown_labels |-> j = idx + 1 ],
      title |-> Title(dropdown_labels[idx + 1]),
      top |-> top_list(frame, dropdown_labels[idx + 1], prio) ]

Figure(frame, prio) ==
    [ traces |-> [ j \in DOMAIN dropdown_labels |-> Trace(frame, j - 1) ],
      buttons |-> [ j \in DOMAIN dropdown_labels |-> Button(frame, j - 1, prio) ],
      title |-> Title(dropdown_labels[1]),
      top |-> top_list(frame, dropdown_labels[1], prio) ]

\* main, lines 342-343: --interactive
make_interactive_dashboard ==
    /\ pc = "reported"
    /\ args.interactive
    /\ \E prio \in Perms(Len(df)) : fig' = Figure(df, prio)
    /\ written' = written \cup { [ path |-> DashboardPath ] }
    /\ output' = Append(output, SavedLine(DashboardPath))
    /\ steps' = Append(steps, "chart")
    /\ pc' = "done"
    /\ UNCHANGED << file, args, df, err, indexer, sorted_df, selected >>

\* The reader picks button i of the dropdown: method "update" applies the
\* button's visibility array to the traces, and its title and annotations
\* to the layout.
SelectButton(i) ==
    /\ pc = "done"
    /\ fig # NoFig
    /\ fig' = [ fig EXCEPT
                  !.traces = [ j \in DOMAIN fig.traces |->
                                 [ fig.traces[j] EXCEPT
                                     !.visible = fig.buttons[i].visible[j] ] ],
                  !.title = fig.buttons[i].title,
                  !.top = fig.buttons[i].top ]
    /\ selected' = i
    /\ UNCHANGED << file, args, pc, df, err, output, indexer, sorted_df, written, steps >>

Select == \E i \in DOMAIN dropdown_labels : SelectButton(i)

\* one run of main, and then the written dashboard in use
Next ==
    \/ load_data_validate
    \/ load_data_average
    \/ print_average_scores
    \/ main_month
    \/ generate_all_months
    \/ make_interactive_dashboard
    \/ Select

Spec == Init /\ [][Next]_vars


\* The same program, run on two tables and on every value of --month.
TwoTables ==
    { ReadCsv(h, rs) :
        h \in { required_cols, required_cols \ { "Longitude" } },
        rs \in { r \in RowSeqs : Len(r) = 1 } }

InitMonth == InitWith(TwoTables, AllMonthArgs)

SpecMonth == InitMonth /\ [][Next]_vars

\* ================================================================ properties
\* The names below are written out again, independently of the definitions
\* above, so that the properties do not rest on them.
MonthNames ==
    { "Jan", "Feb", "Mar", "Apr", "May", "Jun", "Jul", "Aug", "Sep", "Oct",
      "Nov", "Dec" }

RequiredNames == { "Park", "State", "Latitude", "Longitude" } \cup MonthNames

Labels ==
    << "Jan", "Feb", "Mar", "Apr", "May", "Jun", "Jul", "Aug", "Sep", "Oct",
       "Nov", "Dec", "Average" >>

Absent == { c \in RequiredNames : c \notin file.columns }

LoadFailed == err.in = "load_data"

\* load_data has returned a table to main
LoadReturned ==
    \/ pc \in { "loaded", "reported", "done" }
    \/ pc = "raised" /\ ~ LoadFailed

\* print_average_scores has returned
Reported ==
    \/ pc \in { "reported", "done" }
    \/ pc = "raised" /\ ~ LoadFailed

RankLines == SelectSeq(output, LAMBDA l : l.kind = "rank")

MonthMode == ~ args.all /\ ~ args.interactive

\* C1: load_data fails exactly when a required column is absent from the
\* header, and the error then names exactly the absent required columns;
\* columns that are not required play no part.
C1_SchemaErrorNamesMissing ==
    pc # "start" =>
        /\ LoadFailed <=> Absent # { }
        /\ LoadFailed => /\ pc = "raised"
                         /\ err.type = "ValueError"
                         /\ err.missing = Absent
        /\ ~ LoadFailed => pc # "raised" \/ err.in = "normalize_month_name"

C1_Witness ==
    /\ LoadFailed
    /\ err.missing = { "Longitude" }
    /\ "Elevation" \in file.columns
    /\ Len(file.rows) > 0

\* C2: the report is in non-increasing order of AverageScore, and records
\* with equal AverageScore keep the order they had in the input.
C2_SortedAndStable ==
    Reported =>
        \A j, k \in DOMAIN indexer :
            j < k =>
                /\ df[indexer[j]]["AverageScore"] >= df[indexer[k]]["AverageScore"]
                /\ df[indexer[j]]["AverageScore"] = df[indexer[k]]["AverageScore"]
                     => \/ indexer[j] < indexer[k]
                        \/ df[indexer[j]] = df[indexer[k]]

AllPresent ==
    \A i \in DOMAIN file.rows :
        \A c \in MonthNames \cap file.columns : file.rows[i][c] # NaN

\* C3: when no monthly value is missing, twelve times a record's
\* AverageScore is the sum of its twelve monthly values.
C3_AverageIsMean ==
    (LoadReturned /\ AllPresent) =>
        /\ Len(df) = Len(file.rows)
        /\ \A i \in DOMAIN df :
             LET r == file.rows[i]
             IN  12 * df[i]["AverageScore"] =
                   AvgScale * (r["Jan"] + r["Feb"] + r["Mar"] + r["Apr"]
                               + r["May"] + r["Jun"] + r["Jul"] + r["Aug"]
                               + r["Sep"] + r["Oct"] + r["Nov"] + r["Dec"])

C3_Witness ==
    /\ LoadReturned
    /\ AllPresent
    /\ Len(df) = 2
    /\ df[1]["Park"] = "Yellowstone" /\ 12 * df[1]["AverageScore"] = 77 * AvgScale
    /\ df[2]["Park"] = "Zion" /\ df[2]["AverageScore"] = 6 * AvgScale

IsPrefix(a, b) == Len(a) <= Len(b) /\ a = SubSeq(b, 1, Len(a))

\* C4: main validates, then averages, then reports, then builds charts,
\* each only after the one before; a missing column ends the run at the
\* validation, with no average computed, no line printed, no file written.
C4_StepsInOrder ==
    /\ IsPrefix(steps, << "validate", "average", "report", "chart" >>)
    /\ LoadFailed =>
         /\ pc = "raised"
         /\ steps = << "validate" >>
         /\ df = << >>
         /\ output = << >>
         /\ written = { }
         /\ fig = NoFig
    /\ pc = "validated" => steps = << "validate" >> /\ Absent = { }
    /\ output # << >> => Len(steps) >= 3 /\ LoadReturned
    /\ written # { } => Len(steps) = 4 /\ output[1] = Heading

C4_Witness ==
    /\ pc = "raised"
    /\ LoadFailed
    /\ Len(file.rows) = 2
    /\ args.all

\* C5: the report has one line per record: its lines are the input records
\* in some order, none dropped and none repeated, the k-th with rank k and
\* with that record's Park, State and AverageScore (to two decimals).
C5_ReportIsPermutation ==
    Reported =>
        /\ Len(RankLines) = Len(file.rows)
        /\ \E p \in Perms(Len(file.rows)) :
             \A k \in DOMAIN RankLines :
                /\ RankLines[k].rank = k
                /\ RankLines[k].park = file.rows[p[k]]["Park"]
                /\ RankLines[k].state = file.rows[p[k]]["State"]
                /\ RankLines[k].avg = Fmt2(df[p[k]]["AverageScore"])

C5_Witness ==
    /\ pc = "reported"
    /\ Len(RankLines) = 3
    /\ RankLines[1].park = "Yellowstone" /\ RankLines[1].avg = 642
    /\ RankLines[2].park = "Yosemite" /\ RankLines[2].avg = 612
    /\ RankLines[3].park = "Acadia" /\ RankLines[3].avg = 600
    /\ file.rows[1]["Park"] = "Acadia"

HeaderOnly == Absent = { } /\ file.rows = << >>

\* C6 as stated: for a valid header and no rows, nothing fails and the
\* ranker prints nothing at all.
C6_NoOutputAtAll ==
    HeaderOnly =>
        /\ ~ LoadFailed
        /\ pc = "reported" => output = << >> /\ err = NoError

\* C6 amended: for a valid header and no rows, nothing fails in the loader
\* or the ranker, and the ranker prints its heading and no record line.
C6_HeadingOnly ==
    HeaderOnly =>
        /\ ~ LoadFailed
        /\ pc # "raised" \/ err.in = "normalize_month_name"
        /\ pc = "reported" => output = << Heading >> /\ err = NoError

C6_Witness ==
    /\ HeaderOnly
    /\ pc = "reported"
    /\ output = << Heading >>

\* C7 as stated: the loaded table has the input's rows in the input's
\* order with every input field unchanged, and stays so after the report.
C7_EveryFieldUnchanged ==
    LoadReturned =>
        /\ Len(df) = Len(file.rows)
        /\ \A i \in DOMAIN df :
             /\ DOMAIN df[i] = file.columns \cup { "AverageScore" }
             /\ \A c \in file.columns : df[i][c] = file.rows[i][c]

\* C7 amended: the loaded table has the input's rows in the input's order,
\* with every input field unchanged other than one that is itself called
\* AverageScore, which holds the computed mean; it stays so after the
\* report and the charts.
C7_FieldsUnchangedButAverage ==
    LoadReturned =>
        /\ Len(df) = Len(file.rows)
        /\ \A i \in DOMAIN df :
             /\ DOMAIN df[i] = file.columns \cup { "AverageScore" }
             /\ \A c \in file.columns \ { "AverageScore" } :
                  df[i][c] = file.rows[i][c]
             /\ df[i]["AverageScore"] = RowMean(file.rows[i], MONTH_COLUMNS)

C7_Witness ==
    /\ pc = "done"
    /\ written # { }
    /\ Len(df) = 3
    /\ indexer = << 3, 1, 2 >>
    /\ "Elevation" \in file.columns
    /\ df[1]["Park"] = "Acadia"

White == { " ", "\t", "\n" }

\* s without the whitespace around it
Core(s) ==
    LET inner == { k \in DOMAIN s : s[k] \notin White }
    IN  IF inner = { } THEN << >>
        ELSE SubSeq(s, CHOOSE a \in inner : \A k \in inner : a <= k,
                       CHOOSE b \in inner : \A k \in inner : b >= k)

\* month i's full English name and its first three letters, in capitals
CapitalNames ==
    [ i \in DOMAIN EnglishMonthNames |->
        { Upper(EnglishMonthNames[i]), Upper(Abbreviation(EnglishMonthNames[i])) } ]

\* the months that s names: by full name or first three letters, in any
\* letter case, with whitespace and nothing else around it
Denoted(s) ==
    LET u == Upper(Core(s))
    IN  { i \in DOMAIN CapitalNames : u \in CapitalNames[i] }

\* normalizing a canonical abbreviation returns it
IdempotentOnResults ==
    \A i \in 1..12 :
        normalize_month_name(MonthChars[Labels[i]]) = Returned(Labels[i])

MonthBranchTaken == MonthMode /\ pc \in { "done", "raised" } /\ ~ LoadFailed

\* C9: normalize_month_name returns a member of MONTH_COLUMNS or raises
\* ValueError: the month's abbreviation for a month name or three-letter
\* abbreviation in any case with surrounding whitespace, ValueError for
\* anything else.  A returned abbreviation normalizes to itself, main's
\* membership check never fails, and a rejected --month writes no heat map.
C9_NormalizeMonth ==
    /\ IdempotentOnResults
    /\ err.in # "main"
    /\ MonthMode =>
         LET r == normalize_month_name(args.month)
             d == Denoted(args.month)
         IN  /\ \A i \in d : r = Returned(Labels[i])
             /\ d = { } => r = Raised("ValueError")
             /\ r.ok => r.value \in MonthNames
             /\ MonthBranchTaken =>
                  IF r.ok
                  THEN /\ pc = "done"
                       /\ { w.path : w \in written } = { HeatmapPath(r.value) }
                  ELSE /\ pc = "raised"
                       /\ err.type = "ValueError"
                       /\ err.in = "normalize_month_name"
                       /\ written = { }

C9_Witness ==
    /\ pc = "done"
    /\ args.month = << "\t", " ", "O", "C", "T", "O", "B", "E", "R", " " >>
    /\ { w.path : w \in written } = { HeatmapPath("Oct") }

Shown == { j \in DOMAIN fig.traces : fig.traces[j].visible }

\* C10: the dashboard has 13 traces and 13 buttons, the twelve months and
\* then Average, in the same order; button i's visibility array has length
\* 13 and is true at i only; exactly one trace is visible, Jan at first and
\* afterwards that of the button selected last, and the title and the
\* top-list annotation are those of the same label.
C10_OneTraceVisible ==
    fig # NoFig =>
        LET cur == IF selected = 0 THEN 1 ELSE selected
        IN  /\ Len(fig.traces) = 13
            /\ Len(fig.buttons) = 13
            /\ \A j \in 1..13 :
                 /\ fig.traces[j].name = Labels[j]
                 /\ fig.buttons[j].label = Labels[j]
                 /\ fig.buttons[j].top.label = Labels[j]
                 /\ DOMAIN fig.buttons[j].visible = 1..13
                 /\ \A k \in 1..13 : fig.buttons[j].visible[k] <=> (k = j)
            /\ Shown = { cur }
            /\ fig.title = << "US National Parks Hiking Conditions - ", Labels[cur] >>
            /\ fig.top = fig.buttons[cur].top

C10_Witness ==
    /\ selected = 13
    /\ Shown = { 13 }
    /\ fig.top.label = "Average"
    /\ Len(df) = 2
    /\ df[1]["Park"] = "Acadia"
    /\ fig.top.entries[1].park = "Zion"

====
